---- MODULE Spec2Model ----
(***************************************************************************)
(* A model of bot.py: the Telegram front end of a locally hosted model.    *)
(* Text is a sequence of one-character strings, so that find, slicing,     *)
(* strip, escaping and chunking are computed as the Python code computes   *)
(* them.  Indices of text are 0-based, as in the source.                   *)
(***************************************************************************)
EXTENDS Integers, Sequences, FiniteSets, TLC

VARIABLES
    \* ---- module state of bot.py
    conversations,      \* the dict conversations: chat id -> its entry (NoEntry if no key)
    disk,               \* conversations.json as last written by save_conversations
    \* ---- locals of the handle_message call in flight
    pc,                 \* "idle" | "post" | "stream"
    chat_id,
    user_text,
    conversation,       \* the list the local name conversation refers to
    shared,             \* TRUE iff that list is the very object conversations[chat_id]
    state,              \* "outsideThink" | "insideThink" | "afterThink"
    outside_buffer,     \* text before the first <think>
    inside_buffer,      \* text inside <think>...</think>
    after_buffer,       \* text after </think>
    full_response,      \* every token string received, concatenated
    buffer,             \* the line buffer: the lines appended and not yet cleared
    last_update_time,
    chain_of_thought_msg,   \* handle of the reasoning slot, or None
    public_msg,             \* handle of the public slot, or None
    thinking_header_msg,    \* handle of the "Thinking..." message, or None
    complete_response_received,
    \* ---- the collaborators
    chat_log,           \* the slot messages this exchange put on the chat, in order
    edit_times,         \* per slot, when edit_text was called while the stream was open
    faulted,            \* the transport failed a call for a reason other than its rules
    lenient,            \* the transport accepted an edit that changed nothing, and
                        \* follow-ups were sent after it (a rejection sends none)
    now,                \* time.time(), in tenths of a second since the exchange began
    max_len,            \* the transport's message length limit (TELEGRAM_MAX_LEN, scaled)
    partial,            \* the last line arrived without its newline (end of stream)
    raw_rest,           \* SpecSplit: the raw stream the backend has not delivered yet
    \* ---- what the run has used of its bounds, and history the claims refer to
    lines_read,         \* backend lines delivered so far
    exchanges,          \* handle_message calls started so far
    aborted,            \* user_text of the exchanges that were aborted
    arrived,            \* the token strings of the well-formed lines delivered, concatenated
    renders,            \* SpecRender: renderer calls since the buffers last changed
    log_before,         \* SpecRender: chat_log when the buffers last changed
    payload,            \* the payload build_prompt returned for the exchange in flight
    final_attempts,     \* update_messages calls made by the final flush
    final_rejected,     \* the transport rejected an edit of the final flush with an error
    call_args,          \* the arguments of a function called on its own
    call_result         \* what that call returned: NoResult before it

storeVars == <<conversations, disk>>
splitVars == <<state, outside_buffer, inside_buffer, after_buffer, full_response>>
slotVars == <<chain_of_thought_msg, public_msg, chat_log, faulted, lenient>>
localVars == <<pc, chat_id, user_text, conversation, shared, buffer, last_update_time,
               thinking_header_msg, complete_response_received, edit_times, partial>>
runVars == <<lines_read, exchanges, aborted, arrived>>
renderVars == <<renders, log_before>>
flushVars == <<final_attempts, final_rejected>>
callVars == <<call_args, call_result>>

vars == <<storeVars, splitVars, slotVars, localVars, runVars, renderVars,
          payload, flushVars, callVars, now, max_len, raw_rest>>

(***************************************************************************)
(* Text helpers                                                            *)
(***************************************************************************)
None == "None"

\* chain_of_thought_msg = NoMsg, public_msg = NoMsg: no message; handles count from 1
NoMsg == 0

\* a key of the dict conversations: absent, or present with its list of turns
NoEntry == [has |-> FALSE, turns |-> <<>>]
Entry(turns) == [has |-> TRUE, turns |-> turns]

\* the result of a function called on its own: not yet, or the value returned
NoResult == [done |-> FALSE, value |-> None]
Result(v) == [done |-> TRUE, value |-> v]

OPEN_MARKER == <<"<", "t", "h", "i", "n", "k", ">">>
CLOSE_MARKER == <<"<", "/", "t", "h", "i", "n", "k", ">">>

\* text[i:j] of Python for 0 <= i, j (clamped to the length)
Slice(text, i, j) ==
    LET hi == IF j > Len(text) THEN Len(text) ELSE j
    IN  IF i >= hi THEN <<>> ELSE SubSeq(text, i + 1, hi)

\* text[i:]
SliceFrom(text, i) == Slice(text, i, Len(text))

\* a search that takes the first character of pat for the whole of it
FindLoose(text, pat, i) ==
    LET hits == {k \in i..(Len(text) - 1) : text[k + 1] = pat[1]}
    IN  IF hits = {} THEN -1 ELSE CHOOSE k \in hits : \A m \in hits : k <= m

\* text.find(pat, i): the least 0-based index >= i where pat occurs, or -1
Find(text, pat, i) ==
    LET hits == {k \in i..(Len(text) - Len(pat)) : Slice(text, k, k + Len(pat)) = pat}
    IN  IF hits = {} THEN -1 ELSE CHOOSE k \in hits : \A m \in hits : k <= m

(***************************************************************************)
(* The tag splitter of handle_message (the while loop over new_tokens)     *)
(***************************************************************************)
SplitState(st, o, i, a) == [state |-> st, outside |-> o, inside |-> i, after |-> a]

RECURSIVE ScanTokens(_, _, _)
ScanTokens(s, new_tokens, i) ==
    IF ~(i < Len(new_tokens)) THEN s
    ELSE IF s.state = "outsideThink" THEN
        LET idx == Find(new_tokens, OPEN_MARKER, i)
        IN  IF idx = -1
            THEN ScanTokens([s EXCEPT !.outside = @ \o SliceFrom(new_tokens, i)],
                            new_tokens, Len(new_tokens))
            ELSE ScanTokens([s EXCEPT !.outside = @ \o Slice(new_tokens, i, idx),
                                      !.state = "insideThink"],
                            new_tokens, idx + Len(OPEN_MARKER))
    ELSE IF s.state = "insideThink" THEN
        LET end_idx == Find(new_tokens, CLOSE_MARKER, i)
        IN  IF end_idx = -1
            THEN ScanTokens([s EXCEPT !.inside = @ \o SliceFrom(new_tokens, i)],
                            new_tokens, Len(new_tokens))
            ELSE ScanTokens([s EXCEPT !.inside = @ \o Slice(new_tokens, i, end_idx),
                                      !.state = "afterThink"],
                            new_tokens, end_idx + Len(CLOSE_MARKER))
    ELSE ScanTokens([s EXCEPT !.after = @ \o SliceFrom(new_tokens, i)],
                    new_tokens, Len(new_tokens))

\* one fragment folded into the buffers
SplitFragment(s, new_tokens) == ScanTokens(s, new_tokens, 0)

InitialSplit == SplitState("outsideThink", <<>>, <<>>, <<>>)

CurrentSplit == SplitState(state, outside_buffer, inside_buffer, after_buffer)

(***************************************************************************)
(* Constants of bot.py                                                     *)
(***************************************************************************)
TELEGRAM_MAX_LEN == 4096

\* UPDATE_INTERVAL = 1.2 seconds; the model's clock counts tenths of a second
UPDATE_INTERVAL == 12

Whitespace == {" ", "\n", "\t"}

\* escape_chars of escape_markdown_v2, in the order of the source; the grave accent
\* (the 8th of them) cannot be written in a string of this language and is named
GRAVE == "grave"
ESCAPE_CHARS ==
    <<"_", "*", "[", "]", "(", ")", "~", GRAVE, ">", "#", "+", "-", "=", "{", "}", ".", "!">>

(***************************************************************************)
(* str.strip, escape_markdown_v2, chunk_text                               *)
(***************************************************************************)
\* text.strip()
Strip(text) ==
    LET solid == {k \in 1..Len(text) : text[k] \notin Whitespace}
    IN  IF solid = {} THEN <<>>
        ELSE LET lo == CHOOSE k \in solid : \A m \in solid : k <= m
                 hi == CHOOSE k \in solid : \A m \in solid : m <= k
             IN  SubSeq(text, lo, hi)

\* text.replace(c, "\\" + c); halving keeps the evaluation shallow on long text
RECURSIVE ReplaceChar(_, _)
ReplaceChar(text, c) ==
    IF Len(text) = 0 THEN <<>>
    ELSE IF Len(text) = 1 THEN (IF text[1] = c THEN <<"\\", c>> ELSE text)
    ELSE IF \A k \in 1..Len(text) : text[k] # c THEN text
    ELSE LET half == Len(text) \div 2
         IN  ReplaceChar(SubSeq(text, 1, half), c)
             \o ReplaceChar(SubSeq(text, half + 1, Len(text)), c)

RECURSIVE EscapeFrom(_, _)
EscapeFrom(text, n) ==
    IF n > Len(ESCAPE_CHARS) THEN text
    ELSE EscapeFrom(ReplaceChar(text, ESCAPE_CHARS[n]), n + 1)

escape_markdown_v2(text) == EscapeFrom(text, 1)

\* the loop with while idx + max_len <= len(text): the short last chunk is lost
RECURSIVE ChunkFromWhole(_, _, _)
ChunkFromWhole(text, max_len_, idx) ==
    IF ~(idx + max_len_ <= Len(text)) THEN <<>>
    ELSE LET end == idx + max_len_
         IN  <<Slice(text, idx, end)>> \o ChunkFromWhole(text, max_len_, end)

RECURSIVE ChunkFrom(_, _, _)
ChunkFrom(text, max_len_, idx) ==
    IF ~(idx < Len(text)) THEN <<>>
    ELSE LET end == idx + max_len_
         IN  <<Slice(text, idx, end)>> \o ChunkFrom(text, max_len_, end)

chunk_text(text, max_len_) == ChunkFrom(text, max_len_, 0)

\* MAX_CONVERSATION_TURNS = 10
MAX_CONVERSATION_TURNS == 10

\* while start_idx > 0 and conversation[start_idx]["role"] != "user": start_idx -= 1
RECURSIVE TrimStart(_, _)
TrimStart(conversation_, start_idx) ==
    IF start_idx > 0 /\ conversation_[start_idx + 1].role # "user"
    THEN TrimStart(conversation_, start_idx - 1)
    ELSE start_idx

trim_conversation(conversation_, max_turns) ==
    IF Len(conversation_) <= max_turns * 2
    THEN conversation_
    ELSE SliceFrom(conversation_,
                   TrimStart(conversation_, Len(conversation_) - (max_turns * 2)))

\* f"||{escaped}||"
Spoiler(inside) == <<"|", "|">> \o escape_markdown_v2(inside) \o <<"|", "|">>

(***************************************************************************)
(* The chat transport.  A message is [slot, text]; a handle is its index   *)
(* in chat_log.  A call may fail for any reason (fault); besides, the      *)
(* transport rejects a text longer than its limit or empty, and may reject *)
(* ("Message is not modified") or accept an edit that changes nothing.     *)
(***************************************************************************)
Msg(slot, text) == [slot |-> slot, text |-> text]

\* send_message(text): the outcomes, each [log, handle, fault]
SendOutcomes(log, slot, text, limit) ==
    {[log |-> log, handle |-> NoMsg,
      fault |-> (Len(text) <= limit /\ Strip(text) # <<>>)]}
    \cup (IF Len(text) <= limit /\ Strip(text) # <<>>
          THEN {[log |-> Append(log, Msg(slot, text)), handle |-> Len(log) + 1,
                 fault |-> FALSE]}
          ELSE {})

\* msg.edit_text(text): the outcomes, each [log, result, fault, lenient]
EditOutcomes(log, h, text) ==
    {[log |-> [log EXCEPT ![h].text = text], result |-> "ok", fault |-> FALSE,
      lenient |-> (log[h].text = text)],
     [log |-> log, result |-> "error", fault |-> TRUE, lenient |-> FALSE],
     [log |-> log, result |-> "not_found", fault |-> TRUE, lenient |-> FALSE]}
    \cup (IF log[h].text = text
          THEN {[log |-> log, result |-> "not_modified", fault |-> FALSE,
                 lenient |-> FALSE]}
          ELSE {})

\* for chunk in chunks: send_message(chunk); the first failure raises
SendAllOutcomes(log, slot, texts) ==
    {[log |-> log \o [k \in 1..n |-> Msg(slot, texts[k])], fault |-> n < Len(texts)] :
        n \in 0..Len(texts)}

(***************************************************************************)
(* ensure_messages_sent and update_messages: the set of possible results   *)
(***************************************************************************)
Slots(cot, pub, log, fault, len) ==
    [cot |-> cot, pub |-> pub, log |-> log, fault |-> fault, lenient |-> len]

\* if inside_buffer.strip(): if not chain_of_thought_msg:
CotWantedAlways(inside, cot) == cot = NoMsg
CotWanted(inside, cot) == Strip(inside) # <<>> /\ cot = NoMsg

\* current_public = (outside_buffer + after_buffer).strip(); if current_public: if not public_msg:
PublicWanted(outside, after, pub) == Strip(outside \o after) # <<>> /\ pub = NoMsg

EnsureMessagesSent(s, inside, outside, after, limit) ==
    LET first ==
            IF CotWanted(inside, s.cot)
            THEN {Slots(r.handle, s.pub, r.log, s.fault \/ r.fault, s.lenient) :
                    r \in SendOutcomes(s.log, "cot", Spoiler(inside), limit)}
            ELSE {s}
    IN  UNION {IF PublicWanted(outside, after, t.pub)
               THEN {Slots(t.cot, r.handle, r.log, t.fault \/ r.fault, t.lenient) :
                       r \in SendOutcomes(t.log, "pub", Strip(outside \o after), limit)}
               ELSE {t} : t \in first}

\* the reasoning half of update_messages
UpdateThinking(s, inside, limit) ==
    IF s.cot # NoMsg /\ inside # <<>>
    THEN LET chunks == chunk_text(Spoiler(inside), limit)
         IN  UNION {IF e.result = "ok"
                    THEN {Slots(s.cot, s.pub, r.log, s.fault \/ r.fault,
                                s.lenient \/ (e.lenient /\ Len(chunks) > 1)) :
                            r \in SendAllOutcomes(e.log, "cot", Tail(chunks))}
                    ELSE {Slots(s.cot, s.pub, e.log, s.fault \/ e.fault, s.lenient)} :
                    e \in EditOutcomes(s.log, s.cot, chunks[1])}
    ELSE {s}

\* the public half of update_messages; the message sent after "Message to edit not
\* found" is bound to the parameter public_msg only, so the caller's slot is unchanged
UpdatePublic(s, outside, after, limit) ==
    LET current_public == outside \o after
    IN  IF s.pub # NoMsg /\ Strip(current_public) # <<>>
        THEN LET chunks == chunk_text(current_public, limit)
             IN  UNION {IF e.result = "ok"
                        THEN {Slots(s.cot, s.pub, r.log, s.fault \/ r.fault,
                                s.lenient \/ (e.lenient /\ Len(chunks) > 1)) :
                                r \in SendAllOutcomes(e.log, "pub", Tail(chunks))}
                        ELSE IF e.result = "not_found"
                        THEN {Slots(s.cot, s.pub, r.log, TRUE, s.lenient) :
                                r \in SendOutcomes(e.log, "pub", current_public, limit)}
                        ELSE {Slots(s.cot, s.pub, e.log, s.fault \/ e.fault, s.lenient)} :
                        e \in EditOutcomes(s.log, s.pub, chunks[1])}
        ELSE {s}

UpdateMessages(s, inside, outside, after, limit) ==
    UNION {UpdatePublic(t, outside, after, limit) : t \in UpdateThinking(s, inside, limit)}

\* await ensure_messages_sent(); await update_messages(...)
RenderOutcomes(s, inside, outside, after, limit) ==
    UNION {UpdateMessages(t, inside, outside, after, limit) :
             t \in EnsureMessagesSent(s, inside, outside, after, limit)}

CurrentSlots == Slots(chain_of_thought_msg, public_msg, chat_log, faulted, lenient)

\* edit_text is called on the reasoning slot / on the public slot
EditsThinking(s, inside) == s.cot # NoMsg /\ inside # <<>>
EditsPublic(s, outside, after) == s.pub # NoMsg /\ Strip(outside \o after) # <<>>

(***************************************************************************)
(* Bounds of the model                                                     *)
(***************************************************************************)
Chats == {"c1"}
SmallLimit == 5         \* the transport limit the exchanges are checked with
MaxExchanges == 1       \* handle_message calls in one run
MaxLines == 2           \* backend lines delivered in one run
MaxTime == 26           \* the clock stops advancing here

\* the token strings a well-formed backend line may carry
Tokens ==
    {<<>>, <<"a">>, <<" ">>, OPEN_MARKER, CLOSE_MARKER, <<"a">> \o OPEN_MARKER \o <<"a">>}

\* how long the loop may wait for the next line
LineDelays == {0, UPDATE_INTERVAL, UPDATE_INTERVAL + 1}

\* the handle of the "Thinking..." message, which is not one of chat_log's
HeaderMsg == 100

(***************************************************************************)
(* The state after load_conversations(): no file, or a file with a history *)
(***************************************************************************)
UserTurn(text) == [role |-> "user", content |-> text]
AssistantTurn(thinking, content) ==
    [role |-> "assistant", thinking |-> thinking, content |-> content]

StoredHistory == <<UserTurn(0), AssistantTurn(<<>>, <<"a">>)>>

InitStore ==
    /\ conversations \in [Chats -> {NoEntry, Entry(StoredHistory)}]
    /\ disk = conversations

InitLocals ==
    /\ pc = "idle"
    /\ chat_id = None
    /\ user_text = 0
    /\ conversation = <<>>
    /\ shared = FALSE
    /\ state = "outsideThink"
    /\ outside_buffer = <<>>
    /\ inside_buffer = <<>>
    /\ after_buffer = <<>>
    /\ full_response = <<>>
    /\ buffer = <<>>
    /\ last_update_time = 0
    /\ chain_of_thought_msg = NoMsg
    /\ public_msg = NoMsg
    /\ thinking_header_msg = NoMsg
    /\ complete_response_received = FALSE
    /\ chat_log = <<>>
    /\ edit_times = [s \in {"cot", "pub"} |-> <<>>]
    /\ faulted = FALSE
    /\ lenient = FALSE
    /\ partial = FALSE
    /\ payload = None

InitRun ==
    /\ now = 0
    /\ lines_read = 0
    /\ exchanges = 0
    /\ aborted = {}
    /\ arrived = <<>>
    /\ renders = 0
    /\ log_before = <<>>
    /\ final_attempts = 0
    /\ final_rejected = FALSE

InitCalls ==
    /\ call_args = None
    /\ call_result = NoResult

Init ==
    /\ InitStore
    /\ InitLocals
    /\ InitRun
    /\ InitCalls
    /\ max_len = SmallLimit
    /\ raw_rest = <<>>

(***************************************************************************)
(* build_prompt                                                            *)
(***************************************************************************)
\* seq[-n:] of Python for n > 0
LastN(seq, n) == IF Len(seq) <= n THEN seq ELSE SubSeq(seq, Len(seq) - n + 1, Len(seq))

SystemMessage == [role |-> "system", content |-> "You are a helpful assistant. ..."]

\* the message build_prompt makes of one turn
PromptMessage(turn) ==
    IF turn.role = "user"
    THEN [role |-> "user", content |-> turn.content]
    ELSE LET thinking == Strip(turn.thinking)
             response == Strip(turn.content)
         IN  [role |-> "assistant",
              content |-> IF thinking # <<>>
                          THEN OPEN_MARKER \o thinking \o CLOSE_MARKER \o <<"\n">>
                               \o response
                          ELSE response]

build_prompt(conversation_) ==
    LET window == LastN(conversation_, 6)
    IN  [messages |-> <<SystemMessage>> \o [k \in 1..Len(window) |-> PromptMessage(window[k])],
         stream |-> TRUE]

(***************************************************************************)
(* handle_message                                                          *)
(***************************************************************************)
\* conversation = conversations.get(chat_id, []); conversation.append(...);
\* thinking_header_msg = await update.message.reply_text("Thinking..."), which raises
\* out of the handler when the transport fails; the locals
StartExchange(c) ==
    /\ pc = "idle"
    /\ exchanges < MaxExchanges
    /\ LET turn == UserTurn(exchanges + 1)
           present == conversations[c].has
       IN  /\ conversation' = IF present THEN Append(conversations[c].turns, turn)
                               ELSE <<turn>>
           /\ shared' = present
           /\ conversations' = IF present
                               THEN [conversations EXCEPT ![c] = Entry(Append(@.turns, turn))]
                               ELSE conversations
    /\ chat_id' = c
    /\ user_text' = exchanges + 1
    /\ exchanges' = exchanges + 1
    /\ \E sent \in BOOLEAN :
          /\ thinking_header_msg' = IF sent THEN HeaderMsg ELSE NoMsg
          /\ faulted' = ~sent
          /\ lenient' = FALSE
          /\ pc' = IF sent THEN "post" ELSE "idle"
    /\ chat_log' = <<>>
    /\ chain_of_thought_msg' = NoMsg
    /\ public_msg' = NoMsg
    /\ complete_response_received' = FALSE
    /\ state' = "outsideThink"
    /\ outside_buffer' = <<>>
    /\ inside_buffer' = <<>>
    /\ after_buffer' = <<>>
    /\ full_response' = <<>>
    /\ buffer' = <<>>
    /\ partial' = FALSE
    /\ arrived' = <<>>
    /\ now' = 0
    /\ last_update_time' = now'
    /\ edit_times' = [s \in {"cot", "pub"} |-> <<>>]
    /\ payload' = build_prompt(LastN(conversation', 6))
    /\ final_attempts' = 0
    /\ final_rejected' = FALSE
    /\ UNCHANGED <<disk, callVars, max_len, raw_rest, lines_read, aborted, renderVars>>

\* await thinking_header_msg.edit_text(...); return.  The edit changes the header
\* message alone, whose text chat_log does not keep.
Abort ==
    /\ aborted' = aborted \cup {user_text}
    /\ pc' = "idle"
    /\ UNCHANGED <<storeVars, splitVars, slotVars, chat_id, user_text, conversation,
                   shared, buffer, last_update_time, thinking_header_msg,
                   complete_response_received, edit_times, partial, lines_read,
                   exchanges, arrived, renderVars, now,
                   payload, flushVars, callVars, max_len, raw_rest>>

\* session.post raises (the except clause of handle_message), or
\* response.status != 200: in both the header is edited and the handler returns
PostFails == pc = "post" /\ Abort

\* response.status == 200: buffer = ""
PostOk ==
    /\ pc = "post"
    /\ pc' = "stream"
    /\ buffer' = <<>>
    /\ UNCHANGED <<storeVars, splitVars, slotVars, chat_id, user_text, conversation,
                   shared, last_update_time, thinking_header_msg,
                   complete_response_received, edit_times, partial, runVars,
                   renderVars, now,
                   payload, flushVars, callVars, max_len, raw_rest>>

\* async for line in response.content raises: the except clause of handle_message
StreamFail == pc = "stream" /\ Abort

\* a line may arrive: the stream is open and the run's bounds allow one more
LineArrives(d) ==
    /\ pc = "stream"
    /\ ~partial
    /\ lines_read < MaxLines
    /\ now + d <= MaxTime
    /\ lines_read' = lines_read + 1

\* if not line.strip(): continue
ReadBlankLine ==
    \E d \in LineDelays :
        /\ LineArrives(d)
        /\ now' = now + d
        /\ UNCHANGED <<storeVars, splitVars, slotVars, localVars, exchanges, aborted,
                       arrived, renderVars,
                       payload, flushVars, callVars, max_len, raw_rest>>

\* buffer += line; if not buffer.endswith('\n'): continue   (the stream ends here)
ReadPartialLine ==
    \E d \in LineDelays :
        /\ LineArrives(d)
        /\ now' = now + d
        /\ buffer' = Append(buffer, "ok")
        /\ partial' = TRUE
        /\ UNCHANGED <<storeVars, splitVars, slotVars, pc, chat_id, user_text,
                       conversation, shared, last_update_time, thinking_header_msg,
                       complete_response_received, edit_times, exchanges, aborted,
                       arrived, renderVars,
                       payload, flushVars, callVars, max_len, raw_rest>>

\* the first chunk_line of the buffer raises, so the except clause keeps the buffer
Poisoned(lines) == lines # <<>> /\ lines[1] = "badshape"

\* a line that is not JSON, or JSON of another shape:
\*   "nonjson"  json.loads raises JSONDecodeError: continue
\*   "noshape"  neither "message" nor "response" in chunk: continue
\*   "badshape" the lookups or full_response += new_tokens raise (TypeError, KeyError)
ReadMalformedLine ==
    \E d \in LineDelays, kind \in {"nonjson", "noshape", "badshape"} :
        /\ LineArrives(d)
        /\ now' = now + d
        /\ buffer' = IF Poisoned(Append(buffer, kind)) THEN Append(buffer, kind) ELSE <<>>
        /\ UNCHANGED <<storeVars, splitVars, slotVars, pc, chat_id, user_text,
                       conversation, shared, last_update_time, thinking_header_msg,
                       complete_response_received, edit_times, partial, exchanges,
                       aborted, arrived, renderVars,
                       payload, flushVars, callVars, max_len, raw_rest>>

\* if time.time() - last_update_time > UPDATE_INTERVAL:
RateCheckEager(t, last) == t - last >= UPDATE_INTERVAL
RateCheck(t, last) == t - last > UPDATE_INTERVAL

\* a well-formed line: full_response += new_tokens, the scan, the rate check and,
\* when it fires, ensure_messages_sent, update_messages and the new last_update_time
\* (the awaits of a render complete within the resolution of the clock)
ReadTokens ==
    \E d \in LineDelays, new_tokens \in Tokens :
        /\ LineArrives(d)
        /\ arrived' = arrived \o new_tokens
        /\ IF Poisoned(Append(buffer, "ok"))
           THEN /\ buffer' = Append(buffer, "ok")
                /\ now' = now + d
                /\ UNCHANGED <<splitVars, slotVars, last_update_time, edit_times>>
           ELSE LET s == SplitFragment(CurrentSplit, new_tokens)
                IN  /\ buffer' = <<>>
                    /\ full_response' = full_response \o new_tokens
                    /\ state' = s.state
                    /\ outside_buffer' = s.outside
                    /\ inside_buffer' = s.inside
                    /\ after_buffer' = s.after
                    /\ IF RateCheck(now + d, last_update_time)
                       THEN \E t \in EnsureMessagesSent(CurrentSlots, s.inside, s.outside,
                                                        s.after, max_len) :
                            \E u \in UpdateMessages(t, s.inside, s.outside, s.after, max_len) :
                               /\ now' = now + d
                               /\ last_update_time' = now'
                               /\ chain_of_thought_msg' = u.cot
                               /\ public_msg' = u.pub
                               /\ chat_log' = u.log
                               /\ faulted' = u.fault
                               /\ lenient' = u.lenient
                               /\ edit_times' =
                                    [edit_times EXCEPT
                                       !["cot"] = IF EditsThinking(t, s.inside)
                                                  THEN Append(@, now') ELSE @,
                                       !["pub"] = IF EditsPublic(t, s.outside, s.after)
                                                  THEN Append(@, now') ELSE @]
                       ELSE /\ now' = now + d
                            /\ UNCHANGED <<slotVars, last_update_time, edit_times>>
        /\ UNCHANGED <<storeVars, pc, chat_id, user_text, conversation, shared,
                       thinking_header_msg, complete_response_received, partial,
                       exchanges, aborted, renderVars,
                       payload, flushVars, callVars, max_len, raw_rest>>

\* retry_count = 3
retry_count == 3

\* update_messages raises into its caller: never, each of its transport calls sits in
\* a try whose except Exception clause logs and goes on
UpdateRaises(u) == FALSE

\* for attempt in range(retry_count): try: await update_messages(...); break
\* except Exception: ...; await asyncio.sleep(0.5)
\* the outcomes, each [slots, attempts] with the calls made
RECURSIVE FinalUpdate(_, _, _, _, _, _)
FinalUpdate(s, inside, outside, after, limit, attempt) ==
    UNION {IF UpdateRaises(u) /\ attempt + 1 < retry_count
           THEN FinalUpdate(u, inside, outside, after, limit, attempt + 1)
           ELSE {[slots |-> u, attempts |-> attempt + 1]} :
           u \in UpdateMessages(s, inside, outside, after, limit)}

\* the outcomes of update_messages in which an edit_text call was rejected with an
\* error other than "Message is not modified"
EditRejected(s, inside, outside, after, limit) ==
    LET rejected(x, edits) ==
            IF edits THEN {Slots(x.cot, x.pub, x.log, TRUE, x.lenient)} ELSE {}
    IN  UNION {UpdatePublic(x, outside, after, limit) :
                 x \in rejected(s, EditsThinking(s, inside))}
        \cup UNION {rejected(x, EditsPublic(x, outside, after)) :
                      x \in UpdateThinking(s, inside, limit)}

\* the stream ends: complete_response_received = True, the final flush
\* (ensure_messages_sent, then the retry loop around update_messages), the commit and
\* the header delete (which changes the header message alone)
Finish ==
    /\ pc = "stream"
    /\ complete_response_received' = TRUE
    /\ \E t \in EnsureMessagesSent(CurrentSlots, inside_buffer, outside_buffer,
                                   after_buffer, max_len) :
       LET rejected == EditRejected(t, inside_buffer, outside_buffer, after_buffer,
                                    max_len)
       IN  \E r \in FinalUpdate(t, inside_buffer, outside_buffer, after_buffer,
                                max_len, 0) :
              /\ chain_of_thought_msg' = r.slots.cot
              /\ public_msg' = r.slots.pub
              /\ chat_log' = r.slots.log
              /\ faulted' = r.slots.fault
              /\ lenient' = r.slots.lenient
              /\ final_attempts' = r.attempts
              /\ final_rejected' = (r.slots \in rejected)
    /\ LET final_content == Strip(outside_buffer \o after_buffer)
           thinking == Strip(inside_buffer)
       IN  IF final_content # <<>> \/ thinking # <<>>
           THEN /\ conversation' = Append(conversation, AssistantTurn(thinking, final_content))
                /\ conversations' = [conversations EXCEPT ![chat_id] = Entry(conversation')]
                /\ shared' = TRUE
                /\ disk' = conversations'
           ELSE UNCHANGED <<conversation, conversations, shared, disk>>
    /\ pc' = "idle"
    /\ UNCHANGED <<splitVars, chat_id, user_text, buffer, last_update_time,
                   thinking_header_msg, edit_times, partial, runVars, renderVars,
                   now, payload, callVars, max_len, raw_rest>>

(***************************************************************************)
(* start_command: conversations[chat_id] = []; save_conversations().  The  *)
(* application is built with its defaults, which handle one update at a    *)
(* time: the command runs between exchanges, never inside one.             *)
(***************************************************************************)
start_command(c) ==
    /\ pc = "idle"
    /\ conversations' = [conversations EXCEPT ![c] = Entry(<<>>)]
    /\ disk' = conversations'
    /\ UNCHANGED <<splitVars, slotVars, localVars, lines_read, exchanges, aborted,
                   arrived, renderVars, now,
                   payload, flushVars, callVars, max_len, raw_rest>>

Next ==
    \/ \E c \in Chats : StartExchange(c)
    \/ PostFails
    \/ PostOk
    \/ ReadBlankLine
    \/ ReadPartialLine
    \/ ReadMalformedLine
    \/ ReadTokens
    \/ StreamFail
    \/ Finish
    \/ \E c \in Chats : start_command(c)

Spec == Init /\ [][Next]_vars

(***************************************************************************)
(* SpecSplit: the splitter fed every fragmentation of a bounded raw stream *)
(***************************************************************************)
MaxPieces == 3

ScenarioStream ==
    <<"H", "e", "l", "l", "o", " ">> \o OPEN_MARKER
    \o <<"r", "e", "a", "s", "o", "n", "i", "n", "g", " ", "h", "e", "r", "e">>
    \o CLOSE_MARKER \o <<" ", "w", "o", "r", "l", "d">>

Pieces == {<<"a">>, <<"b", " ">>, <<"<">>, OPEN_MARKER, CLOSE_MARKER}

RECURSIVE Streams(_)
Streams(n) ==
    IF n = 0 THEN {<<>>}
    ELSE LET shorter == Streams(n - 1)
         IN  shorter \cup {s \o p : s \in shorter, p \in Pieces}

RawStreams == Streams(MaxPieces) \cup {ScenarioStream}

InitSplit ==
    /\ InitStore
    /\ InitLocals
    /\ InitRun
    /\ InitCalls
    /\ max_len = TELEGRAM_MAX_LEN
    /\ raw_rest \in RawStreams

\* the backend delivers the next k characters of the raw stream as one fragment
FeedFragment ==
    \E k \in 1..Len(raw_rest) :
        LET new_tokens == Slice(raw_rest, 0, k)
            s == SplitFragment(CurrentSplit, new_tokens)
        IN  /\ full_response' = full_response \o new_tokens
            /\ state' = s.state
            /\ outside_buffer' = s.outside
            /\ inside_buffer' = s.inside
            /\ after_buffer' = s.after
            /\ raw_rest' = SliceFrom(raw_rest, k)
            /\ UNCHANGED <<storeVars, slotVars, localVars, runVars, renderVars,
                           now,
                           payload, flushVars, callVars, max_len>>

NextSplit == FeedFragment

SpecSplit == InitSplit /\ [][NextSplit]_vars

(***************************************************************************)
(* SpecRender: the renderer (ensure_messages_sent, then update_messages)   *)
(* called on buffers that grow by whole token strings                      *)
(***************************************************************************)
MaxFeeds == 3           \* token strings folded in one run
MaxRenders == 2         \* renderer calls in a row on unchanged buffers

InitRender ==
    /\ InitStore
    /\ InitLocals
    /\ InitRun
    /\ InitCalls
    /\ max_len = SmallLimit
    /\ raw_rest = <<>>

\* full_response += new_tokens and the scan, as in ReadTokens
FeedTokens ==
    \E new_tokens \in Tokens :
        LET s == SplitFragment(CurrentSplit, new_tokens)
        IN  /\ lines_read < MaxFeeds
            /\ lines_read' = lines_read + 1
            /\ full_response' = full_response \o new_tokens
            /\ state' = s.state
            /\ outside_buffer' = s.outside
            /\ inside_buffer' = s.inside
            /\ after_buffer' = s.after
            /\ renders' = 0
            /\ log_before' = chat_log
            /\ UNCHANGED <<storeVars, slotVars, localVars, exchanges, aborted,
                           arrived, now,
                           payload, flushVars, callVars, max_len, raw_rest>>

\* await ensure_messages_sent(); await update_messages(...): a rate tick or the
\* final flush
RenderNow ==
    /\ renders < MaxRenders
    /\ renders' = renders + 1
    /\ \E u \in RenderOutcomes(CurrentSlots, inside_buffer, outside_buffer, after_buffer,
                               max_len) :
          /\ chain_of_thought_msg' = u.cot
          /\ public_msg' = u.pub
          /\ chat_log' = u.log
          /\ faulted' = u.fault
          /\ lenient' = u.lenient
    /\ UNCHANGED <<storeVars, splitVars, localVars, runVars, log_before, now,
                   payload, flushVars, callVars, max_len,
                   raw_rest>>

NextRender == FeedTokens \/ RenderNow

SpecRender == InitRender /\ [][NextRender]_vars

(***************************************************************************)
(* Functions called on their own: the handler is idle, the store is empty  *)
(***************************************************************************)
InitIdle ==
    /\ conversations = [c \in Chats |-> NoEntry]
    /\ disk = conversations
    /\ InitLocals
    /\ InitRun
    /\ max_len = TELEGRAM_MAX_LEN
    /\ raw_rest = <<>>

\* the call returns: only call_result changes
Returns(value) ==
    /\ ~call_result.done
    /\ call_result' = Result(value)
    /\ UNCHANGED <<storeVars, splitVars, slotVars, localVars, runVars, renderVars,
                   payload, flushVars, call_args, now, max_len, raw_rest>>

(***************************************************************************)
(* SpecTrim: trim_conversation on every short conversation of any role     *)
(* pattern, and on the scenario of eleven user/assistant pairs             *)
(***************************************************************************)
MaxTrimLen == 5         \* turns of a conversation passed to trim_conversation
MaxTrimTurns == 2       \* the largest max_turns passed with them

\* the conversation with the given roles; the content tells the turns apart
TurnsOf(roles) ==
    [k \in 1..Len(roles) |->
        IF roles[k] = "user" THEN UserTurn(k) ELSE AssistantTurn(<<>>, k)]

RolePatterns(n) == UNION {[1..m -> {"user", "assistant"}] : m \in 0..n}

ElevenPairs == TurnsOf([k \in 1..22 |-> IF k % 2 = 1 THEN "user" ELSE "assistant"])

TrimCalls ==
    {[conversation |-> TurnsOf(roles), max_turns |-> m] :
        roles \in RolePatterns(MaxTrimLen), m \in 1..MaxTrimTurns}
    \cup {[conversation |-> ElevenPairs, max_turns |-> MAX_CONVERSATION_TURNS]}

InitTrim ==
    /\ InitIdle
    /\ call_args \in TrimCalls
    /\ call_result = NoResult

CallTrim == Returns(trim_conversation(call_args.conversation, call_args.max_turns))

NextTrim == CallTrim

SpecTrim == InitTrim /\ [][NextTrim]_vars

(***************************************************************************)
(* SpecChunk: chunk_text on every short text and every small max_len       *)
(***************************************************************************)
MaxTextLen == 5         \* characters of a text passed to chunk_text
MaxChunkLen == 3        \* the largest max_len passed with it

Texts(n) == UNION {[1..m -> {"a", "b"}] : m \in 0..n}

ChunkCalls == {[text |-> t, max_len |-> L] : t \in Texts(MaxTextLen), L \in 1..MaxChunkLen}

InitChunk ==
    /\ InitIdle
    /\ call_args \in ChunkCalls
    /\ call_result = NoResult

CallChunk == Returns(chunk_text(call_args.text, call_args.max_len))

NextChunk == CallChunk

SpecChunk == InitChunk /\ [][NextChunk]_vars

(***************************************************************************)
(* SpecStore: the Turn Store over many exchanges.  Each action is one      *)
(* whole handle_message call, from the get/append to the commit; its       *)
(* locals are gone when it returns, so only the store, the payload it      *)
(* built and the names the claims refer to are kept.                       *)
(***************************************************************************)
MaxStoreExchanges == 11 \* handle_message calls in one run

\* the text the backend streams in answer: reasoning and a public part
Reply == OPEN_MARKER \o <<"a">> \o CLOSE_MARKER \o <<"b">>

InitStoreRun ==
    /\ InitIdle
    /\ InitCalls

\* conversation = conversations.get(chat_id, []); conversation.append(user turn)
Appended(c, turn) ==
    IF conversations[c].has THEN Append(conversations[c].turns, turn) ELSE <<turn>>

\* a call that ends before the commit: reply_text raises, the POST fails or the
\* stream breaks.  The append has changed the stored list if there was one.
ExchangeAborted(c) ==
    /\ pc = "idle"
    /\ exchanges < MaxStoreExchanges
    /\ exchanges' = exchanges + 1
    /\ chat_id' = c
    /\ user_text' = exchanges + 1
    /\ conversation' = Appended(c, UserTurn(user_text'))
    /\ shared' = conversations[c].has
    /\ conversations' = IF conversations[c].has
                        THEN [conversations EXCEPT ![c] = Entry(conversation')]
                        ELSE conversations
    /\ payload' = build_prompt(LastN(conversation', 6))
    /\ complete_response_received' = FALSE
    /\ aborted' = aborted \cup {user_text'}
    /\ UNCHANGED <<disk, splitVars, slotVars, pc, buffer, last_update_time,
                   thinking_header_msg, edit_times, partial, lines_read,
                   arrived, renderVars, flushVars, callVars, now, max_len, raw_rest>>

\* a call whose stream completes with Reply: the commit appends the assistant turn,
\* stores the list under chat_id and saves
ExchangeCompleted(c) ==
    /\ pc = "idle"
    /\ exchanges < MaxStoreExchanges
    /\ exchanges' = exchanges + 1
    /\ chat_id' = c
    /\ user_text' = exchanges + 1
    /\ payload' = build_prompt(LastN(Appended(c, UserTurn(user_text')), 6))
    /\ complete_response_received' = TRUE
    /\ LET s == SplitFragment(InitialSplit, Reply)
           final_content == Strip(s.outside \o s.after)
           thinking == Strip(s.inside)
       IN  /\ conversation' = Append(Appended(c, UserTurn(user_text')),
                                     AssistantTurn(thinking, final_content))
           /\ conversations' = [conversations EXCEPT ![c] = Entry(conversation')]
           /\ shared' = TRUE
           /\ disk' = conversations'
    /\ UNCHANGED <<splitVars, slotVars, pc, buffer, last_update_time,
                   thinking_header_msg, edit_times, partial, lines_read, aborted,
                   arrived, renderVars, flushVars, callVars, now, max_len, raw_rest>>

NextStore ==
    \/ \E c \in Chats : ExchangeAborted(c)
    \/ \E c \in Chats : ExchangeCompleted(c)
    \/ \E c \in Chats : start_command(c)

SpecStore == InitStoreRun /\ [][NextStore]_vars

(***************************************************************************)
(* SpecLoad: load_conversations on every small conversations.json.  A JSON *)
(* value stored for a chat is [kind, items]: a list with its items, or a   *)
(* string (iterating it yields its characters), or a number (not           *)
(* iterable).  An item is a record telling whether it is an object and     *)
(* which of the keys role, content, thinking it has.                       *)
(***************************************************************************)
MaxStoredTurns == 2     \* items of a stored conversation
StoredChats == {"c1", "c2"}

Item(isdict, has_role, role, has_content, has_thinking) ==
    [isdict |-> isdict, has_role |-> has_role, role |-> role,
     has_content |-> has_content, content |-> IF has_content THEN <<"a">> ELSE <<>>,
     has_thinking |-> has_thinking, thinking |-> IF has_thinking THEN <<"t">> ELSE <<>>]

NonDict == Item(FALSE, FALSE, "", FALSE, FALSE)

StoredItems ==
    {Item(TRUE, TRUE, "user", TRUE, FALSE),
     Item(TRUE, TRUE, "assistant", TRUE, TRUE),
     Item(TRUE, TRUE, "assistant", TRUE, FALSE),
     Item(TRUE, TRUE, "user", FALSE, FALSE),
     Item(TRUE, TRUE, "system", TRUE, FALSE),
     Item(TRUE, FALSE, "", TRUE, FALSE),
     NonDict}

ListValue(items) == [kind |-> "list", items |-> items]
StringValue == [kind |-> "string", items |-> <<NonDict>>]
NumberValue == [kind |-> "number", items |-> <<>>]

StoredValues ==
    {ListValue(t) : t \in UNION {[1..n -> StoredItems] : n \in 0..MaxStoredTurns}}
    \cup {StringValue, NumberValue}

\* the file: absent, not JSON, a JSON array, or a JSON object chat id -> value
File(kind, entries) == [kind |-> kind, entries |-> entries]

StoredFiles ==
    {File(k, [c \in StoredChats |-> ListValue(<<>>)]) : k \in {"absent", "corrupt", "array"}}
    \cup {File("object", e) : e \in [StoredChats -> StoredValues]}

\* the body of "for turn in convo": what one item adds to valid_convo
ValidTurn(turn) ==
    IF turn.isdict /\ turn.has_role
    THEN IF turn.role = "user" /\ turn.has_content
         THEN <<turn>>
         ELSE IF turn.role = "assistant" /\ turn.has_content
         THEN <<AssistantTurn(turn.thinking, turn.content)>>
         ELSE <<>>
    ELSE <<>>

RECURSIVE ValidConvo(_)
ValidConvo(items) ==
    IF items = <<>> THEN <<>> ELSE ValidTurn(Head(items)) \o ValidConvo(Tail(items))

\* "for turn in convo" raises TypeError on a value that is not iterable
Iterable(convo) == convo.kind \in {"list", "string"}

\* the exception leaves load_conversations: loaded.items() on an array
\* (AttributeError) or the iteration of a number (TypeError); only JSONDecodeError
\* and IOError are caught
LoadRaises(file) ==
    \/ file.kind = "array"
    \/ file.kind = "object" /\ \E c \in StoredChats : ~Iterable(file.entries[c])

InitLoad ==
    /\ InitLocals
    /\ InitRun
    /\ conversations = [c \in StoredChats |-> NoEntry]
    /\ disk = conversations
    /\ max_len = TELEGRAM_MAX_LEN
    /\ raw_rest = <<>>
    /\ call_args \in StoredFiles
    /\ call_result = NoResult

\* load_conversations(): conversations is assigned after the loop over all chats, or
\* set to {} when the file is absent or not JSON; an exception that leaves the
\* function leaves conversations as it was
load_conversations ==
    /\ ~call_result.done
    /\ call_result' = Result(IF LoadRaises(call_args) THEN "raised" ELSE "returned")
    /\ conversations' =
          IF LoadRaises(call_args)
          THEN conversations
          ELSE IF call_args.kind = "object"
          THEN [c \in StoredChats |-> Entry(ValidConvo(call_args.entries[c].items))]
          ELSE [c \in StoredChats |-> NoEntry]
    /\ UNCHANGED <<disk, splitVars, slotVars, localVars, runVars, renderVars,
                   payload, flushVars, call_args, now, max_len, raw_rest>>

NextLoad == load_conversations

SpecLoad == InitLoad /\ [][NextLoad]_vars

(***************************************************************************)
(* Claims about the splitter (checked under SpecSplit)                     *)
(***************************************************************************)
Occurrences(text, pat) ==
    {k \in 0..(Len(text) - Len(pat)) : Slice(text, k, k + Len(pat)) = pat}

\* exactly one open marker and one close marker, the open one first
OnePair(text) ==
    /\ Cardinality(Occurrences(text, OPEN_MARKER)) = 1
    /\ Cardinality(Occurrences(text, CLOSE_MARKER)) = 1
    /\ Find(text, OPEN_MARKER, 0) < Find(text, CLOSE_MARKER, 0)

Buffers(s) == <<s.outside, s.inside, s.after>>

\* the raw stream with its marker pairs taken out; an open marker whose close
\* marker has not arrived yet counts as the start of a pair in progress
RECURSIVE RemovePairs(_)
RemovePairs(text) ==
    LET o == Find(text, OPEN_MARKER, 0)
        c == IF o = -1 THEN -1 ELSE Find(text, CLOSE_MARKER, o + Len(OPEN_MARKER))
    IN  IF o = -1 THEN text
        ELSE IF c = -1
        THEN Slice(text, 0, o) \o SliceFrom(text, o + Len(OPEN_MARKER))
        ELSE Slice(text, 0, o) \o Slice(text, o + Len(OPEN_MARKER), c)
             \o RemovePairs(SliceFrom(text, c + Len(CLOSE_MARKER)))

\* the fragment a FeedFragment step delivers
Delivered == Slice(raw_rest, 0, Len(raw_rest) - Len(raw_rest'))

\* C1: once the whole stream has been fed, a stream with exactly one well-formed
\* <think>...</think> pair leaves the same three buffers as feeding it as a single
\* fragment, however it was cut into fragments.
C1_FragmentationInvariance ==
    (raw_rest = <<>> /\ OnePair(full_response))
        => Buffers(CurrentSplit) = Buffers(SplitFragment(InitialSplit, full_response))

\* C2: after every fragment, outside_buffer + inside_buffer + after_buffer is the
\* raw stream received so far with its marker pairs removed and nothing else
\* removed, added or reordered.
C2_SplitterLossless ==
    outside_buffer \o inside_buffer \o after_buffer = RemovePairs(full_response)

\* C3: a fragment with a complete open marker that arrives in the after-reasoning
\* state has the text before the marker appended to after_buffer, puts the machine
\* back inside reasoning, and has the text up to the next close marker appended to
\* inside_buffer; the markers go to no buffer.
C3_ReentrantBlock ==
    [][ LET idx == Find(Delivered, OPEN_MARKER, 0)
            body == idx + Len(OPEN_MARKER)
            end_idx == IF idx = -1 THEN -1 ELSE Find(Delivered, CLOSE_MARKER, body)
        IN  (state = "afterThink" /\ idx # -1) =>
              /\ Slice(after_buffer', 0, Len(after_buffer) + idx)
                    = after_buffer \o Slice(Delivered, 0, idx)
              /\ IF end_idx = -1
                 THEN /\ state' = "insideThink"
                      /\ after_buffer' = after_buffer \o Slice(Delivered, 0, idx)
                      /\ inside_buffer' = inside_buffer \o SliceFrom(Delivered, body)
                 ELSE Slice(inside_buffer', 0, Len(inside_buffer) + end_idx - body)
                         = inside_buffer \o Slice(Delivered, body, end_idx)
      ]_vars

MarkerFree(text) ==
    Occurrences(text, OPEN_MARKER) = {} /\ Occurrences(text, CLOSE_MARKER) = {}

\* everything received so far went to outside_buffer
PassedThrough(st, outside, inside, after, full) ==
    /\ inside = <<>>
    /\ after = <<>>
    /\ st = "outsideThink"
    /\ outside = full

\* C14: while the fragments hold no open and no close marker, after every fragment
\* inside_buffer and after_buffer are empty, the state is outsideThink and
\* outside_buffer is the concatenation of the fragments received so far: for a
\* stream whose text holds no marker, and fragment by fragment for fragments that
\* hold none.
C14_NoMarkerPassThrough ==
    /\ [](MarkerFree(full_response \o raw_rest) =>
            PassedThrough(state, outside_buffer, inside_buffer, after_buffer,
                          full_response))
    /\ [][(/\ PassedThrough(state, outside_buffer, inside_buffer, after_buffer,
                            full_response)
           /\ MarkerFree(Delivered))
          => PassedThrough(state', outside_buffer', inside_buffer', after_buffer',
                           full_response')]_vars

\* C14 happens: a stream without markers, but with an angle bracket, was delivered
\* whole
C14_Witness ==
    /\ raw_rest = <<>>
    /\ MarkerFree(full_response)
    /\ Len(full_response) >= 3
    /\ \E k \in 1..Len(full_response) : full_response[k] = "<"

(***************************************************************************)
(* Claims about one exchange and the store (checked under Spec)            *)
(***************************************************************************)
TurnsOfAborted(turns) ==
    {k \in 1..Len(turns) : turns[k].role = "user" /\ turns[k].content \in aborted}

\* C4: after an aborted exchange the store holds no turn of it: conversations[chat_id]
\* has no added user turn, and no flush writes such a turn to the durable store.
C4_AbortLeavesStore ==
    \A c \in Chats :
        /\ TurnsOfAborted(conversations[c].turns) = {}
        /\ TurnsOfAborted(disk[c].turns) = {}

\* C5: once the final flush of a completed stream has run (the transport having
\* failed no call it should have accepted), each non-empty buffer has its slot.
C5_FinalFlushCreates ==
    (pc = "idle" /\ complete_response_received /\ ~faulted) =>
        /\ inside_buffer # <<>> => chain_of_thought_msg # NoMsg
        /\ outside_buffer \o after_buffer # <<>> => public_msg # NoMsg

\* the edits of each slot issued while the stream is open are more than
\* UPDATE_INTERVAL apart
EditsApart ==
    \A s \in {"cot", "pub"} :
        \A k \in 1..(Len(edit_times[s]) - 1) :
            edit_times[s][k + 1] - edit_times[s][k] > UPDATE_INTERVAL

\* a line read without a render advances the clock by its arrival delay alone
CheckAddsNoDelay ==
    (lines_read' = lines_read + 1 /\ last_update_time' = last_update_time)
        => (now' - now) \in LineDelays

\* C8: while the stream is open, two edits issued on the same slot are more than
\* UPDATE_INTERVAL apart, for every arrival timing, and the rate check itself adds
\* no delay before the next fragment is processed.
C8_RateLimited == []EditsApart /\ [][CheckAddsNoDelay]_vars

\* C8 happens: a slot was edited twice while the stream was open
C8_Witness == \E s \in {"cot", "pub"} : Len(edit_times[s]) >= 2

\* C9: the reasoning slot exists only if inside_buffer is non-empty, the public slot
\* only if outside_buffer + after_buffer is non-empty; a stream without an open
\* marker has no reasoning slot.
C9_LazySlots ==
    /\ chain_of_thought_msg # NoMsg => inside_buffer # <<>>
    /\ public_msg # NoMsg => outside_buffer \o after_buffer # <<>>
    /\ Occurrences(full_response, OPEN_MARKER) = {} => chain_of_thought_msg = NoMsg

\* C9 happens: both slots were created while the stream is still open
C9_Witness ==
    /\ chain_of_thought_msg # NoMsg
    /\ public_msg # NoMsg
    /\ pc = "stream"

\* C10: a malformed line adds nothing and every well-formed line delivered so far
\* (each complete with its newline) has been folded, once and in arrival order.
C10_MalformedSkipped == ~partial => full_response = arrived

(***************************************************************************)
(* Claims about the renderer (checked under SpecRender)                    *)
(***************************************************************************)
SlotHandle(slot) == IF slot = "cot" THEN chain_of_thought_msg ELSE public_msg

\* what update_messages renders into a slot, <<>> when it leaves the slot alone
SlotContent(slot) ==
    IF slot = "cot"
    THEN (IF inside_buffer # <<>> THEN Spoiler(inside_buffer) ELSE <<>>)
    ELSE (IF Strip(outside_buffer \o after_buffer) # <<>>
          THEN outside_buffer \o after_buffer ELSE <<>>)

\* the texts of the messages of a slot sent since the buffers last changed
NewTexts(slot) ==
    LET new == SubSeq(chat_log, Len(log_before) + 1, Len(chat_log))
        mine == SelectSeq(new, LAMBDA m : m.slot = slot)
    IN  [k \in 1..Len(mine) |-> mine[k].text]

\* the messages of a slot whose shown text changed since the buffers last changed
\* (a change of the surrounding whitespace alone is not visible)
Reworded(slot) ==
    {k \in 1..Len(log_before) :
        log_before[k].slot = slot /\ Strip(chat_log[k].text) # Strip(log_before[k].text)}

VisibleChanges(slot) == Len(NewTexts(slot)) + Cardinality(Reworded(slot))

\* the slot existed before this render and its content no longer fits one chunk
Overflows(slot) ==
    /\ SlotHandle(slot) # NoMsg
    /\ SlotHandle(slot) <= Len(log_before)
    /\ Len(chunk_text(SlotContent(slot), max_len)) > 1

\* C6: when the content of a slot chunks into more than one piece, a render (no call
\* failing) leaves a placeholder in the primary slot and emits every chunk, the first
\* included, as a new message in chunk order.
C6_OverflowPolicy ==
    (renders = 1 /\ ~faulted) =>
        \A slot \in {"cot", "pub"} :
            Overflows(slot) =>
                LET chunks == chunk_text(SlotContent(slot), max_len)
                IN  /\ NewTexts(slot) = chunks
                    /\ \A k \in 1..Len(chunks) :
                          chat_log[SlotHandle(slot)].text # chunks[k]

\* what the code does instead: the first chunk goes into the primary slot and the
\* other chunks are sent as follow-ups, unless the transport rejects the edit as
\* unchanged, which ends the call before any follow-up
OverflowAsCoded ==
    (renders = 1 /\ ~faulted) =>
        \A slot \in {"cot", "pub"} :
            Overflows(slot) =>
                LET chunks == chunk_text(SlotContent(slot), max_len)
                IN  /\ chat_log[SlotHandle(slot)].text = chunks[1]
                    /\ \/ NewTexts(slot) = Tail(chunks)
                       \/ /\ NewTexts(slot) = <<>>
                          /\ log_before[SlotHandle(slot)].text = chunks[1]

\* the scenario of C6 at the scale of the model: content of three chunks
OverflowThreeChunks ==
    /\ renders = 1
    /\ ~faulted
    /\ Overflows("cot")
    /\ Len(chunk_text(SlotContent("cot"), max_len)) = 3
    /\ Len(NewTexts("cot")) = 2

\* C7: two renderer calls in a row on the same buffers (no call failing) make at
\* most one visible change to a slot and its follow-ups, whether the content fits
\* one chunk or not and whether an unchanged edit is rejected or accepted.
C7_IdempotentRender ==
    (renders = 2 /\ ~faulted) => \A slot \in {"cot", "pub"} : VisibleChanges(slot) <= 1

(***************************************************************************)
(* Claims about trim_conversation (checked under SpecTrim)                 *)
(***************************************************************************)
\* C11: trim_conversation never returns a sequence whose first element has role
\* assistant, whatever the conversation and max_turns >= 1.
C11_TrimStartsWithUser ==
    call_result.done =>
        (call_result.value = <<>> \/ call_result.value[1].role # "assistant")

\* the same for the conversations that start with a user turn: it holds
TrimKeepsUserStart ==
    (call_result.done /\ call_args.conversation # <<>>
        /\ call_args.conversation[1].role = "user") =>
            call_result.value[1].role = "user"

IsSuffix(short, long) ==
    /\ Len(short) <= Len(long)
    /\ short = SubSeq(long, Len(long) - Len(short) + 1, Len(long))

\* C12: trim_conversation returns a suffix of its input of at most 2 * max_turns
\* entries, the input itself when it is that short; the eleven pairs trimmed with
\* max_turns = 10 give the last 20 entries, the first a user turn.
C12_TrimBounded ==
    call_result.done =>
        LET conv == call_args.conversation
            limit == 2 * call_args.max_turns
        IN  /\ IsSuffix(call_result.value, conv)
            /\ Len(call_result.value) <= limit
            /\ Len(conv) <= limit => call_result.value = conv
            /\ conv = ElevenPairs =>
                  /\ call_result.value = SubSeq(conv, 3, 22)
                  /\ call_result.value[1].role = "user"

\* what of C12 the code does keep: a suffix, the input itself when short, and the
\* scenario of the eleven pairs
TrimSuffix ==
    call_result.done =>
        LET conv == call_args.conversation
        IN  /\ IsSuffix(call_result.value, conv)
            /\ Len(conv) <= 2 * call_args.max_turns => call_result.value = conv
            /\ conv = ElevenPairs => call_result.value = SubSeq(conv, 3, 22)

(***************************************************************************)
(* Claims about chunk_text (checked under SpecChunk)                       *)
(***************************************************************************)
RECURSIVE Join(_)
Join(texts) == IF texts = <<>> THEN <<>> ELSE Head(texts) \o Join(Tail(texts))

\* C13: chunk_text(s, L) returns pieces of s, in order, whose concatenation is s;
\* every piece but the last has length L, the last has length 1..L; the empty string
\* gives no piece.
C13_ChunksPartition ==
    call_result.done =>
        LET chunks == call_result.value
            L == call_args.max_len
        IN  /\ Join(chunks) = call_args.text
            /\ \A k \in 1..(Len(chunks) - 1) : Len(chunks[k]) = L
            /\ chunks # <<>> =>
                  (1 <= Len(chunks[Len(chunks)]) /\ Len(chunks[Len(chunks)]) <= L)
            /\ call_args.text = <<>> => chunks = <<>>

\* C13 happens: a text cut into several chunks, the last one shorter than the others
C13_Witness ==
    /\ call_result.done
    /\ Len(call_result.value) >= 2
    /\ Len(call_result.value[Len(call_result.value)]) < call_args.max_len

(***************************************************************************)
(* Claims about the final rendering (checked under Spec)                   *)
(***************************************************************************)
\* the text a slot and its follow-up messages show, concatenated in chat order
Shown(slot) ==
    Join([k \in 1..Len(SelectSeq(chat_log, LAMBDA m : m.slot = slot)) |->
            SelectSeq(chat_log, LAMBDA m : m.slot = slot)[k].text])

\* the transport kept to its rules throughout: no call failed for another reason and
\* no unchanged edit was accepted
StrictTransport == ~faulted /\ ~lenient

\* C15: after the final flush of a completed stream, under a transport that accepts
\* what is within the limit and changes the slot and rejects unchanged edits, the
\* public slot and its follow-ups show outside_buffer + after_buffer and the
\* reasoning slot and its follow-ups show the escaped, spoiler-wrapped inside_buffer
\* (surrounding whitespace aside), nothing missing and nothing twice.
C15_LosslessAtCompletion ==
    (pc = "idle" /\ complete_response_received /\ StrictTransport) =>
        /\ Strip(Shown("pub")) = Strip(outside_buffer \o after_buffer)
        /\ Shown("cot") = IF Strip(inside_buffer) # <<>> THEN Spoiler(inside_buffer)
                          ELSE <<>>

\* the exchange that just ended was not aborted and stored its assistant turn
Committed ==
    /\ user_text \notin aborted
    /\ conversations[chat_id].has
    /\ conversations[chat_id].turns = conversation
    /\ disk = conversations
    /\ conversation[Len(conversation)].role = "assistant"
    /\ conversation[Len(conversation) - 1] = UserTurn(user_text)

\* the step that ends a completed stream: the final flush and the commit
FinalFlush == pc = "stream" /\ pc' = "idle" /\ complete_response_received'

\* C16: when the transport rejects the edit of the final flush for a reason other
\* than unchanged content, the edit is issued again, at most retry_count attempts
\* in all, and the exchange is not aborted and commits its assistant turn.
C16_BoundedRetry ==
    [][(FinalFlush /\ final_rejected') =>
          /\ final_attempts' > 1
          /\ final_attempts' <= retry_count
          /\ Committed']_vars

\* the part of C16 the code keeps: the rejection is swallowed and the turn committed
RejectionSwallowed ==
    [][(FinalFlush /\ final_rejected') => (final_attempts' = 1 /\ Committed')]_vars

(***************************************************************************)
(* Claims about the Turn Store and the prompt (checked under SpecStore)    *)
(***************************************************************************)
\* C17: after any sequence of completed exchanges (none aborted) the stored
\* conversation and its persisted copy hold at most 2 * MAX_CONVERSATION_TURNS turns.
C17_StoreBounded ==
    aborted = {} =>
        \A c \in Chats :
            /\ Len(conversations[c].turns) <= 2 * MAX_CONVERSATION_TURNS
            /\ Len(disk[c].turns) <= 2 * MAX_CONVERSATION_TURNS

\* C20: the turn list of the payload built for an exchange, the system message
\* aside, begins with a user turn and ends with the user turn of that exchange.
C20_PromptWindow ==
    exchanges > 0 =>
        LET messages == payload.messages
        IN  /\ messages[1] = SystemMessage
            /\ messages[2].role = "user"
            /\ messages[Len(messages)] = [role |-> "user", content |-> user_text]

\* the part of C20 the code keeps: at most six turns, the last one the current
\* user turn
PromptEndsWithUser ==
    exchanges > 0 =>
        LET messages == payload.messages
        IN  /\ messages[1] = SystemMessage
            /\ Len(messages) <= 7
            /\ messages[Len(messages)] = [role |-> "user", content |-> user_text]

(***************************************************************************)
(* Claims about load_conversations (checked under SpecLoad)                *)
(***************************************************************************)
\* a turn the store format accepts: an object with role user or assistant and content
WellFormed(turn) ==
    /\ turn.isdict
    /\ turn.has_role
    /\ turn.role \in {"user", "assistant"}
    /\ turn.has_content

\* role and content of the turns of a sequence, in order
RolesAndContents(turns) ==
    [k \in 1..Len(turns) |-> <<turns[k].role, turns[k].content>>]

\* C18: for every readable store the load does not fail, each conversation stored
\* as a list keeps its well-formed turns in their order and loses only the others,
\* and an entry that is no list is discarded without touching the other entries.
C18_LoadDropsIndividually ==
    (call_result.done /\ call_args.kind = "object") =>
        /\ call_result.value = "returned"
        /\ \A c \in StoredChats :
              IF call_args.entries[c].kind = "list"
              THEN /\ conversations[c].has
                   /\ RolesAndContents(conversations[c].turns) =
                        RolesAndContents(SelectSeq(call_args.entries[c].items, WellFormed))
              ELSE conversations[c].turns = <<>>

\* the part of C18 the code keeps: when every entry is iterable the load returns
\* and drops the malformed items one by one
LoadOfIterables ==
    (/\ call_result.done
     /\ call_args.kind = "object"
     /\ \A c \in StoredChats : Iterable(call_args.entries[c])) =>
        /\ call_result.value = "returned"
        /\ \A c \in StoredChats :
              RolesAndContents(conversations[c].turns) =
                 RolesAndContents(SelectSeq(call_args.entries[c].items, WellFormed))

====
